---- MODULE Spec2Model ----
(***************************************************************************)
(* Notes/diary backend (FastAPI + MongoDB + S3): credential store,         *)
(* password hasher, token issuer, auth gate, attachment store and note     *)
(* lifecycle.  Users and notes live in ONE MongoDB collection, noteDiary   *)
(* (config.py:16 and notes.py:20 name the same collection), modelled as    *)
(* the sequence `collection` in insertion order (find_one returns the      *)
(* first match in natural order).                                          *)
(*                                                                         *)
(* Strings that the code takes apart (file names, object keys, URLs,       *)
(* passwords) are sequences of one-character strings.  None is Null.       *)
(***************************************************************************)
EXTENDS Integers, Sequences, FiniteSets, TLC

VARIABLES
    collection,    \* db.memories.noteDiary: user documents and note documents
    bucket,        \* the S3 bucket: object key -> body
    now,           \* wall clock, in ticks (one tick = one second of strftime)
    envAlgorithm,  \* os.getenv("ALGORITHM") as the auth gate reads it
    resp,          \* the response of the last request
    issued,        \* history: tokens returned by create_access_token
    accepted,      \* history: <<username, password>> pairs signup accepted
    assigned,      \* history: ids handed out by successive create_note inserts
    inflight,      \* requests between their steps (interleaved runs)
    bcryptStrict   \* the installed bcrypt raises on a secret over 72 bytes
                   \* (TRUE) or silently hashes its first 72 bytes (FALSE)

vars == <<collection, bucket, now, envAlgorithm, resp, issued, accepted,
          assigned, inflight, bcryptStrict>>

----------------------------------------------------------------------------
(* Bounds of the model *)

MaxTime == 2
MaxCreates == 2
MaxIssued == 1
MaxInflight == 2

(* Program constants *)

MAX_PASSWORD_CHARS == 72
RETRY_PASSWORD_CHARS == 50
BCRYPT_MAX_BYTES == 72
TokenTTL == 1

Null == "null"
SECRET_KEY == "server-secret"
ALGORITHM == "HS256"
CLOUDFRONT == "https://d2ljorwegx33x7.cloudfront.net/"
AMAZONAWS == "https://bucket.s3.region.amazonaws.com/"

(* Input sets *)

Usernames == {"alice", "bob"}
SignupNames == {"alice"}
Emails == {"a@x", Null}
Passwords == {<<>>, <<"p">>, <<"q">>}
EnvAlgorithms == {"HS256", Null}
Titles == {<<"1", "s", "t">>}
Descriptions == {<<"b">>}
Queries == {<<"1">>, <<"2">>, <<"T">>, <<".">>, <<"(">>}
Dates == {"2024-01-01"}
Filenames == {<<"a">>, <<"a", "%", "2", "0", "b">>}
Slots == {"image_url", "audio_url", "video_url"}

Min(a, b) == IF a < b THEN a ELSE b

----------------------------------------------------------------------------
(* urllib.parse.unquote / unquote_plus and str.replace on character         *)
(* sequences.  A byte >= 128 decodes (errors='replace') to U+FFFD.          *)

HexDigits == <<"0", "1", "2", "3", "4", "5", "6", "7", "8", "9",
               "a", "b", "c", "d", "e", "f">>
UpperHexDigits == <<"A", "B", "C", "D", "E", "F">>

IsHex(c) ==
    \/ \E i \in 1..16 : HexDigits[i] = c
    \/ \E i \in 1..6 : UpperHexDigits[i] = c

HexVal(c) ==
    IF \E i \in 1..16 : HexDigits[i] = c
    THEN (CHOOSE i \in 1..16 : HexDigits[i] = c) - 1
    ELSE (CHOOSE i \in 1..6 : UpperHexDigits[i] = c) + 9

Chr(b) ==
    CASE b = 32 -> " "
      [] b = 37 -> "%"
      [] b = 43 -> "+"
      [] b = 47 -> "/"
      [] b >= 128 -> "U+FFFD"
      [] OTHER -> "chr" \o ToString(b)

RECURSIVE unquote(_)
unquote(s) ==
    IF s = <<>> THEN <<>>
    ELSE IF s[1] = "%" /\ Len(s) >= 3 /\ IsHex(s[2]) /\ IsHex(s[3])
         THEN <<Chr(16 * HexVal(s[2]) + HexVal(s[3]))>>
                  \o unquote(SubSeq(s, 4, Len(s)))
         ELSE <<s[1]>> \o unquote(Tail(s))

replace_plus(s) == [i \in 1..Len(s) |-> IF s[i] = "+" THEN " " ELSE s[i]]

unquote_plus(s) == unquote(replace_plus(s))

----------------------------------------------------------------------------
(* MongoDB: equality filters, find_one, insert_one.  A filter value of      *)
(* null matches a document that lacks the field; the id field is numeric    *)
(* and is never queried for null.                                           *)

Matches(doc, q) ==
    \A f \in DOMAIN q :
        IF f \in DOMAIN doc THEN doc[f] = q[f]
        ELSE f # "id" /\ q[f] = Null

\* index of the first document matching q, 0 when none does
find_one(coll, q) ==
    IF \E i \in 1..Len(coll) : Matches(coll[i], q)
    THEN CHOOSE i \in 1..Len(coll) :
             /\ Matches(coll[i], q)
             /\ \A j \in 1..(i - 1) : ~Matches(coll[j], q)
    ELSE 0

find(coll, q) == SelectSeq(coll, LAMBDA d : Matches(d, q))

insert_one(coll, doc) == Append(coll, doc)

IsNote(doc) == "user_id" \in DOMAIN doc
IsUser(doc) == "username" \in DOMAIN doc

----------------------------------------------------------------------------
(* Password hasher (utils/auth.py).  A bcrypt digest is modelled by the     *)
(* bytes it commits to; the backend raises on a secret it cannot take.      *)

\* a character outside ASCII, two bytes in UTF-8
TwoByteChar == "U+00E9"

Utf8(c) == IF c = TwoByteChar THEN <<"0xC3", "0xA9">> ELSE <<c>>

\* str.encode("utf-8"), as passlib does before it calls bcrypt
RECURSIVE encode(_)
encode(s) == IF s = <<>> THEN <<>> ELSE Utf8(Head(s)) \o encode(Tail(s))

Truncate(password, n) == SubSeq(password, 1, Min(Len(password), n))

\* bcrypt takes 72 bytes: a strict build raises on more, a lenient one
\* ignores the rest
BackendRaises(secret) == bcryptStrict /\ Len(encode(secret)) > BCRYPT_MAX_BYTES

pwd_context_hash(secret) ==
    [scheme |-> "bcrypt", secret |-> Truncate(encode(secret), BCRYPT_MAX_BYTES)]

pwd_context_verify(secret, hashed) ==
    hashed.secret = Truncate(encode(secret), BCRYPT_MAX_BYTES)

\* [ok |-> TRUE, hash |-> digest], or ok = FALSE for the HTTP 500
get_password_hash(password) ==
    LET p == Truncate(password, MAX_PASSWORD_CHARS)
        short == Truncate(p, RETRY_PASSWORD_CHARS)
    IN  IF ~BackendRaises(p)
        THEN [ok |-> TRUE, hash |-> pwd_context_hash(p)]
        ELSE IF ~BackendRaises(short)
             THEN [ok |-> TRUE, hash |-> pwd_context_hash(short)]
             ELSE [ok |-> FALSE, hash |-> pwd_context_hash(<<>>)]

verify_password(plain_password, hashed_password) ==
    LET p == Truncate(plain_password, MAX_PASSWORD_CHARS)
        short == Truncate(p, RETRY_PASSWORD_CHARS)
    IN  IF ~BackendRaises(p)
        THEN pwd_context_verify(p, hashed_password)
        ELSE IF ~BackendRaises(short)
             THEN pwd_context_verify(short, hashed_password)
             ELSE FALSE

\* the inputs get_password_hash and verify_password hand to pwd_context, in
\* the order of the attempts: the retry is made when the first call raised
pwd_context_inputs(password) ==
    LET p == Truncate(password, MAX_PASSWORD_CHARS)
        short == Truncate(p, RETRY_PASSWORD_CHARS)
    IN  IF ~BackendRaises(p) THEN <<p>> ELSE <<p, short>>

\* index of the user's document in the collection, 0 for None
get_user(coll, username) == find_one(coll, [username |-> username])

\* index of the authenticated user's document, 0 for False
authenticate_user(coll, username, password) ==
    LET i == get_user(coll, username)
    IN  IF i = 0 THEN 0
        ELSE IF ~verify_password(password, coll[i].hashed_password) THEN 0
        ELSE i

----------------------------------------------------------------------------
(* Tokens.  A JWT is its claims, the key that signed it and the header's    *)
(* algorithm.                                                               *)

create_access_token(sub, expires_delta, t) ==
    [sub |-> sub, exp |-> t + expires_delta, key |-> SECRET_KEY, alg |-> ALGORITHM]

\* jwt.decode(token, SECRET_KEY, algorithms=[os.getenv("ALGORITHM")]) of PyJWT:
\* the header's algorithm must be the listed one, the signature must verify
\* under the server's key, and exp <= now is ExpiredSignatureError
jwt_decode(token, alg, t) ==
    /\ token.alg = alg
    /\ token.key = SECRET_KEY
    /\ t < token.exp

NoToken == [sub |-> Null, exp |-> 0, key |-> "", alg |-> ""]
NoHeader == [scheme |-> "none", token |-> NoToken]
BasicHeader == [scheme |-> "Basic", token |-> NoToken]
Bearer(token) == [scheme |-> "Bearer", token |-> token]

----------------------------------------------------------------------------
(* Auth gate (routes/users.py).  A gate result is                           *)
(* [status, detail, user]: user is the index of the resolved credential     *)
(* document, 0 when the gate rejects.                                       *)

Rejected(status, detail) == [status |-> status, detail |-> detail, user |-> 0]

\* a header check that lets every header through to the verification
get_token_from_header_any(header) == [status |-> 200, detail |-> "", user |-> 0]

get_token_from_header(header) ==
    IF header.scheme # "Bearer"
    THEN Rejected(401, "Not authenticated")
    ELSE [status |-> 200, detail |-> "", user |-> 0]

\* a gate that tells an unknown subject from a bad token
get_current_user_leaky(coll, header, alg, t) ==
    LET h == get_token_from_header(header)
    IN  IF h.status # 200 THEN h
        ELSE IF ~jwt_decode(header.token, alg, t) \/ header.token.sub = Null
        THEN Rejected(401, "Could not validate credentials")
        ELSE IF get_user(coll, header.token.sub) = 0
        THEN Rejected(401, "User not found")
        ELSE [status |-> 200, detail |-> "",
              user |-> get_user(coll, header.token.sub)]

get_current_user(coll, header, alg, t) ==
    LET h == get_token_from_header(header)
        credentials_exception == Rejected(401, "Could not validate credentials")
    IN  IF h.status # 200 THEN h
        ELSE IF ~jwt_decode(header.token, alg, t) THEN credentials_exception
        ELSE IF header.token.sub = Null THEN credentials_exception
        ELSE IF get_user(coll, header.token.sub) = 0 THEN credentials_exception
        ELSE [status |-> 200, detail |-> "",
              user |-> get_user(coll, header.token.sub)]

IsDisabled(doc) == "disabled" \in DOMAIN doc /\ doc.disabled = TRUE

\* a gate that forgets the disabled check
get_current_active_user_unchecked(coll, header, alg, t) ==
    get_current_user(coll, header, alg, t)

get_current_active_user(coll, header, alg, t) ==
    LET g == get_current_user(coll, header, alg, t)
    IN  IF g.status # 200 THEN g
        ELSE IF IsDisabled(coll[g.user]) THEN Rejected(400, "Inactive user")
        ELSE g

\* the gate as the handlers of the running server call it
Gate(header) == get_current_active_user(collection, header, envAlgorithm, now)

----------------------------------------------------------------------------
(* Responses.  resp = [op, status, detail, user, body, cookie]: user is the *)
(* username the gate resolved (Null when it resolved none).                 *)

NoCookie == [key |-> "", value |-> <<>>, httponly |-> FALSE]

Response(op, status, detail, user, body) ==
    [op |-> op, status |-> status, detail |-> detail, user |-> user,
     body |-> body, cookie |-> NoCookie]

GateError(op, g) == Response(op, g.status, g.detail, Null, Null)

----------------------------------------------------------------------------
(* Signup, login and /users/me (routes/signup.py, login.py, users.py).      *)
(* Of a signup payload the model keeps username, email, hashed_password     *)
(* (the plaintext, as the client names it) and role.                        *)

SignupUsers ==
    [username : SignupNames, email : Emails, hashed_password : Passwords,
     role : {"student"}]

\* the document insert_one stores for an accepted signup
SignupDoc(user) ==
    [user EXCEPT !.hashed_password = get_password_hash(user.hashed_password).hash]

sign_up(user) ==
    LET h == get_password_hash(user.hashed_password)
    IN  IF user.hashed_password = <<>>
        THEN /\ resp' = Response("signup", 400, "Password is required", Null, Null)
             /\ UNCHANGED <<collection, accepted>>
        ELSE IF find_one(collection, [email |-> user.email]) # 0
        THEN /\ resp' = Response("signup", 400, "Email already registered", Null, Null)
             /\ UNCHANGED <<collection, accepted>>
        ELSE IF ~h.ok
        THEN /\ resp' = Response("signup", 500, "Unable to hash password", Null, Null)
             /\ UNCHANGED <<collection, accepted>>
        ELSE /\ collection' = insert_one(collection,
                                  [user EXCEPT !.hashed_password = h.hash])
             /\ accepted' = accepted \cup {<<user.username, user.hashed_password>>}
             /\ resp' = Response("signup", 200, "User created successfully", Null, Null)

SignUp(user) ==
    /\ sign_up(user)
    /\ UNCHANGED <<bucket, now, envAlgorithm, bcryptStrict, issued, assigned, inflight>>

\* models.model.Token: access_token, token_type and username are required
\* POST /hash-password
hash_password(password) ==
    LET h == get_password_hash(password)
    IN  IF h.ok
        THEN resp' = Response("hash-password", 200, "Password hashed successfully",
                        Null, [original_password |-> password,
                               hashed_password |-> h.hash])
        ELSE resp' = Response("hash-password", 500, "Error hashing password",
                              Null, Null)

HashPassword(password) ==
    /\ hash_password(password)
    /\ UNCHANGED <<collection, bucket, now, envAlgorithm, bcryptStrict, issued,
                   accepted, assigned, inflight>>

TokenFields == {"access_token", "token_type", "username"}

TokenValidates(fields) == TokenFields \subseteq DOMAIN fields

\* POST /token and POST /signIn run the same body
login_for_access_token(op, username, password) ==
    LET i == authenticate_user(collection, username, password)
        access_token == create_access_token(collection[i].username, TokenTTL, now)
        fields == [access_token |-> access_token, token_type |-> "bearer"]
    IN  IF i = 0
        THEN /\ resp' = Response(op, 401, "Incorrect username or password", Null, Null)
             /\ UNCHANGED issued
        ELSE /\ Cardinality(issued \cup {access_token}) <= MaxIssued
             /\ issued' = issued \cup {access_token}
             /\ IF TokenValidates(fields)
                THEN resp' = [Response(op, 200, "", collection[i].username, fields)
                                EXCEPT !.cookie = [key |-> "access_token",
                                                   value |-> <<"Bearer ", access_token>>,
                                                   httponly |-> TRUE]]
                ELSE resp' = Response(op, 500, "Internal Server Error",
                                      collection[i].username, Null)

Login(op, username, password) ==
    /\ login_for_access_token(op, username, password)
    /\ UNCHANGED <<collection, bucket, now, envAlgorithm, bcryptStrict, accepted, assigned,
                   inflight>>

\* response_model=User: the stored document without hashed_password
UserView(doc) == [f \in DOMAIN doc \ {"hashed_password"} |-> doc[f]]

read_users_me(header) ==
    LET g == Gate(header)
    IN  IF g.status # 200
        THEN resp' = GateError("users_me", g)
        ELSE resp' = Response("users_me", 200, "", collection[g.user].username,
                              UserView(collection[g.user]))

ReadUsersMe(header) ==
    /\ read_users_me(header)
    /\ UNCHANGED <<collection, bucket, now, envAlgorithm, bcryptStrict, issued, accepted,
                   assigned, inflight>>

\* No endpoint writes the disabled flag of models.model.User: it is set on
\* the stored document directly.
SetDisabled(i) ==
    /\ i \in 1..Len(collection)
    /\ IsUser(collection[i])
    /\ ~IsDisabled(collection[i])
    /\ collection' = [collection EXCEPT ![i] = [disabled |-> TRUE] @@ @]
    /\ UNCHANGED <<bucket, now, envAlgorithm, bcryptStrict, resp, issued, accepted, assigned,
                   inflight>>

Tick ==
    /\ now < MaxTime
    /\ now' = now + 1
    /\ UNCHANGED <<collection, bucket, envAlgorithm, bcryptStrict, resp, issued, accepted,
                   assigned, inflight>>

----------------------------------------------------------------------------
(* Attachment store (routes/notes.py): the S3 bucket behind CloudFront.     *)
(* An uploaded file is [filename, body]; a URL is the CloudFront (or S3)    *)
(* prefix followed by the characters of the object key.                     *)

put_object(b, key, body) ==
    [k \in DOMAIN b \cup {key} |-> IF k = key THEN body ELSE b[k]]

\* S3 answers a delete of a missing key like any other delete
delete_object(b, key) == [k \in DOMAIN b \ {key} |-> b[k]]

Contains(s, c) == \E i \in 1..Len(s) : s[i] = c

IndexOf(s, c) ==
    CHOOSE i \in 1..Len(s) : s[i] = c /\ \A j \in 1..(i - 1) : s[j] # c

\* s.split(marker)[1]
SplitSecond(s, marker) ==
    LET rest == SubSeq(s, IndexOf(s, marker) + 1, Len(s))
    IN  IF Contains(rest, marker)
        THEN SubSeq(rest, 1, IndexOf(rest, marker) - 1)
        ELSE rest

key_of_url(file_url) ==
    IF Contains(file_url, CLOUDFRONT) THEN SplitSecond(file_url, CLOUDFRONT)
    ELSE IF Contains(file_url, AMAZONAWS) THEN SplitSecond(file_url, AMAZONAWS)
    ELSE file_url

\* strftime("%Y%m%d_%H%M%S") of the upload time, one character of the key
Timestamp(t) == ToString(t)

object_key_of(file, t) == <<Timestamp(t), "_">> \o file.filename

url_of(object_key) == <<CLOUDFRONT>> \o object_key

\* [url, bucket]: the URL returned and the bucket after the put
save_file_to_s3(b, file, t) ==
    [url |-> url_of(object_key_of(file, t)),
     bucket |-> put_object(b, object_key_of(file, t), file.body)]

RECURSIVE unique_keys(_, _)
unique_keys(keys_to_try, seen) ==
    IF keys_to_try = <<>> THEN seen
    ELSE IF Contains(seen, Head(keys_to_try))
         THEN unique_keys(Tail(keys_to_try), seen)
         ELSE unique_keys(Tail(keys_to_try), Append(seen, Head(keys_to_try)))

\* a lookup that tries the percent decoded key before the plus-and-percent
\* decoded one
get_file_from_s3_unquote_first(b, file_url) ==
    LET key == key_of_url(file_url)
        keys == unique_keys(<<key, unquote(key), unquote_plus(key),
                              replace_plus(key)>>, <<>>)
        hits == {i \in 1..Len(keys) : keys[i] \in DOMAIN b}
        first == CHOOSE i \in hits : \A j \in hits : i <= j
    IN  IF hits = {}
        THEN [status |-> 404, key |-> <<>>, data |-> Null]
        ELSE [status |-> 200, key |-> keys[first], data |-> b[keys[first]]]

\* [status, key, data]: 200 with the first key variant that exists, else 404
get_file_from_s3(b, file_url) ==
    LET key == key_of_url(file_url)
        keys == unique_keys(<<key, unquote_plus(key), unquote(key),
                              replace_plus(key)>>, <<>>)
        hits == {i \in 1..Len(keys) : keys[i] \in DOMAIN b}
        first == CHOOSE i \in hits : \A j \in hits : i <= j
    IN  IF hits = {}
        THEN [status |-> 404, key |-> <<>>, data |-> Null]
        ELSE [status |-> 200, key |-> keys[first], data |-> b[keys[first]]]

\* the bucket after the delete
delete_file_from_s3(b, file_url) == delete_object(b, unquote(key_of_url(file_url)))

----------------------------------------------------------------------------
(* Note lifecycle (routes/notes.py).  Every handler is behind               *)
(* get_current_active_user.  `files` maps the slots of the multipart parts  *)
(* that were sent (image_url, audio_url, video_url) to the uploaded files.  *)

\* a missing URL (None)
NoUrl == <<>>

\* note.get(slot) is truthy
HasUrl(doc, slot) == slot \in DOMAIN doc /\ doc[slot] # NoUrl

\* an id lookup that counts the documents of the collection
get_next_sequence_value_by_count(coll) == Len(coll) + 1

\* find_one({}, sort=[("id", -1)]): documents without an id sort last
get_next_sequence_value(coll) ==
    LET ids == {coll[i].id : i \in {j \in 1..Len(coll) : "id" \in DOMAIN coll[j]}}
    IN  IF Len(coll) = 0 THEN 1
        ELSE IF ids = {} THEN 0 + 1
        ELSE (CHOOSE m \in ids : \A n \in ids : n <= m) + 1

UploadSlot(b, files, slot, t) ==
    IF slot \in DOMAIN files THEN save_file_to_s3(b, files[slot], t).bucket ELSE b

\* the bucket after the uploads of create_note, in the order image, audio, video
UploadAll(b, files, t) ==
    UploadSlot(UploadSlot(UploadSlot(b, files, "image_url", t),
                          files, "audio_url", t), files, "video_url", t)

UrlsOf(files, t) == [slot \in DOMAIN files |-> save_file_to_s3(bucket, files[slot], t).url]

UrlOrNull(urls, slot) == IF slot \in DOMAIN urls THEN urls[slot] ELSE NoUrl

NewNote(note_id, title, description, date, username, urls) ==
    urls @@ [id |-> note_id, title |-> title, description |-> description,
             date |-> date, user_id |-> username]

create_note(header, title, description, date, files) ==
    LET g == Gate(header)
        username == collection[g.user].username
        urls == UrlsOf(files, now)
        note_id == get_next_sequence_value(collection)
    IN  IF g.status # 200
        THEN /\ resp' = GateError("create", g)
             /\ UNCHANGED <<collection, bucket, assigned>>
        ELSE /\ Len(assigned) < MaxCreates
             /\ bucket' = UploadAll(bucket, files, now)
             /\ collection' = insert_one(collection,
                    NewNote(note_id, title, description, date, username, urls))
             /\ assigned' = Append(assigned, note_id)
             /\ resp' = Response("create", 200, "Note created successfully", username,
                           [id |-> note_id,
                            image_url |-> UrlOrNull(urls, "image_url"),
                            audio_url |-> UrlOrNull(urls, "audio_url"),
                            video_url |-> UrlOrNull(urls, "video_url")])

\* models.model.Note: id, title, description, date, image_url, user_id
NoteView(doc) ==
    [id |-> doc.id, title |-> doc.title, description |-> doc.description,
     date |-> doc.date, user_id |-> doc.user_id,
     image_url |-> IF "image_url" \in DOMAIN doc THEN doc.image_url ELSE NoUrl]

NoteViews(docs) == [i \in 1..Len(docs) |-> NoteView(docs[i])]

get_notes(header) ==
    LET g == Gate(header)
        username == collection[g.user].username
    IN  IF g.status # 200
        THEN resp' = GateError("list", g)
        ELSE resp' = Response("list", 200, "", username,
                              NoteViews(find(collection, [user_id |-> username])))

\* a lookup by id alone
AnyNote(note_id, username) == [id |-> note_id]

\* the filter of a note lookup
OwnNote(note_id, username) == [id |-> note_id, user_id |-> username]

get_note(header, note_id) ==
    LET g == Gate(header)
        username == collection[g.user].username
        i == find_one(collection, OwnNote(note_id, username))
    IN  IF g.status # 200
        THEN resp' = GateError("read", g)
        ELSE IF i = 0
        THEN resp' = Response("read", 404, "Note not found", username, Null)
        ELSE resp' = Response("read", 200, "", username, collection[i])

\* GET /image/{id} re-raises an HTTPException; GET /audio/{id} and
\* GET /video/{id} catch every exception of the fetch and answer 500
get_note_file(header, note_id, slot) ==
    LET g == Gate(header)
        username == collection[g.user].username
        i == find_one(collection, OwnNote(note_id, username))
        got == get_file_from_s3(bucket, collection[i][slot])
    IN  IF g.status # 200
        THEN resp' = GateError(slot, g)
        ELSE IF i = 0
        THEN resp' = Response(slot, 404,
                        IF slot = "image_url" THEN "Note not found"
                        ELSE "Note or attachment not found", username, Null)
        ELSE IF ~HasUrl(collection[i], slot)
        THEN resp' = Response(slot, 404,
                        IF slot = "image_url" THEN "Note has no image"
                        ELSE "Note or attachment not found", username, Null)
        ELSE IF got.status = 200
        THEN resp' = Response(slot, 200, "", username,
                              [note_id |-> note_id, data |-> got.data])
        ELSE IF slot = "image_url"
        THEN resp' = Response(slot, 404, "File not found with any key variation",
                              username, Null)
        ELSE resp' = Response(slot, 500, "Failed to retrieve file", username, Null)

\* `raise HTTPException(404)` inside `try: ... except Exception` of
\* delete_note and update_note is caught and raised again as a 500
CaughtNotFound(op, username) ==
    Response(op, 500, "404: Note not found", username, Null)

DeleteSlot(b, doc, slot) ==
    IF HasUrl(doc, slot) THEN delete_file_from_s3(b, doc[slot]) ELSE b

delete_one(coll, i) == SubSeq(coll, 1, i - 1) \o SubSeq(coll, i + 1, Len(coll))

delete_note(header, note_id) ==
    LET g == Gate(header)
        username == collection[g.user].username
        i == find_one(collection, OwnNote(note_id, username))
        note == collection[i]
    IN  IF g.status # 200
        THEN /\ resp' = GateError("delete", g)
             /\ UNCHANGED <<collection, bucket>>
        ELSE IF i = 0
        THEN /\ resp' = CaughtNotFound("delete", username)
             /\ UNCHANGED <<collection, bucket>>
        ELSE /\ bucket' = DeleteSlot(DeleteSlot(DeleteSlot(bucket, note, "image_url"),
                                                note, "audio_url"), note, "video_url")
             /\ collection' = delete_one(collection, i)
             /\ resp' = Response("delete", 200, "Note deleted successfully",
                                 username, Null)

\* one slot of update_note: delete the old object, then upload the new one
ReplaceSlot(b, doc, files, slot, t) ==
    IF slot \in DOMAIN files
    THEN save_file_to_s3(DeleteSlot(b, doc, slot), files[slot], t).bucket
    ELSE b

update_note(header, note_id, title, description, date, files) ==
    LET g == Gate(header)
        username == collection[g.user].username
        i == find_one(collection, OwnNote(note_id, username))
        existing_note == collection[i]
        update_data == UrlsOf(files, now) @@
                       [title |-> title, description |-> description, date |-> date]
        updated == update_data @@ existing_note
    IN  IF g.status # 200
        THEN /\ resp' = GateError("update", g)
             /\ UNCHANGED <<collection, bucket>>
        ELSE IF i = 0
        THEN /\ resp' = CaughtNotFound("update", username)
             /\ UNCHANGED <<collection, bucket>>
        ELSE /\ bucket' = ReplaceSlot(ReplaceSlot(ReplaceSlot(bucket,
                              existing_note, files, "image_url", now),
                              existing_note, files, "audio_url", now),
                              existing_note, files, "video_url", now)
             /\ collection' = [collection EXCEPT ![i] = updated]
             /\ resp' = Response("update", 200,
                           IF updated # existing_note
                           THEN "Note updated successfully"
                           ELSE "No changes detected", username, Null)

\* {"$regex": query, "$options": "i"}: the query is a regular expression,
\* searched case-insensitively anywhere in the text.  Of the regex syntax the
\* model has the literal characters, "." (any character) and "(", which
\* opens a group and without its ")" makes the pattern invalid.
Lower(c) ==
    CASE c = "T" -> "t" [] c = "S" -> "s" [] c = "R" -> "r" [] OTHER -> c

LowerAll(s) == [i \in 1..Len(s) |-> Lower(s[i])]

RegexInvalid(query) == Contains(query, "(") /\ ~Contains(query, ")")

RegexSearch(text, query) ==
    \E k \in 0..(Len(text) - Len(query)) :
        \A i \in 1..Len(query) :
            query[i] = "." \/ Lower(text[k + i]) = Lower(query[i])

Digits == <<"0", "1", "2", "3", "4", "5", "6", "7", "8", "9">>

IsDigit(c) == \E d \in 1..10 : Digits[d] = c

DigitVal(c) == (CHOOSE d \in 1..10 : Digits[d] = c) - 1

\* int(query) of a string of decimal digits; anything else is the ValueError
ParsesAsInt(query) == query # <<>> /\ \A i \in 1..Len(query) : IsDigit(query[i])

RECURSIVE IntOf(_)
IntOf(query) ==
    IF query = <<>> THEN 0
    ELSE 10 * IntOf(SubSeq(query, 1, Len(query) - 1)) + DigitVal(query[Len(query)])

SearchMatch(doc, query, username) ==
    /\ Matches(doc, [user_id |-> username])
    /\ \/ RegexSearch(doc.title, query)
       \/ RegexSearch(doc.description, query)
       \/ ParsesAsInt(query) /\ doc.id = IntOf(query)

search_notes(header, query) ==
    LET g == Gate(header)
        username == collection[g.user].username
    IN  IF g.status # 200
        THEN resp' = GateError("search", g)
        ELSE IF RegexInvalid(query)
        THEN resp' = Response("search", 500, "Regular expression is invalid",
                              username, Null)
        ELSE resp' = Response("search", 200, "", username,
                        NoteViews(SelectSeq(collection,
                            LAMBDA d : SearchMatch(d, query, username))))

----------------------------------------------------------------------------
(* The note requests as steps of the server *)

AuthFrame == <<now, envAlgorithm, bcryptStrict, issued, accepted, inflight>>

CreateNote(header, title, description, date, files) ==
    /\ create_note(header, title, description, date, files)
    /\ UNCHANGED AuthFrame

GetNotes(header) ==
    /\ get_notes(header)
    /\ UNCHANGED <<collection, bucket, assigned>>
    /\ UNCHANGED AuthFrame

GetNote(header, note_id) ==
    /\ get_note(header, note_id)
    /\ UNCHANGED <<collection, bucket, assigned>>
    /\ UNCHANGED AuthFrame

GetNoteFile(header, note_id, slot) ==
    /\ get_note_file(header, note_id, slot)
    /\ UNCHANGED <<collection, bucket, assigned>>
    /\ UNCHANGED AuthFrame

DeleteNote(header, note_id) ==
    /\ delete_note(header, note_id)
    /\ UNCHANGED assigned
    /\ UNCHANGED AuthFrame

UpdateNote(header, note_id, title, description, date, files) ==
    /\ update_note(header, note_id, title, description, date, files)
    /\ UNCHANGED assigned
    /\ UNCHANGED AuthFrame

SearchNotes(header, query) ==
    /\ search_notes(header, query)
    /\ UNCHANGED <<collection, bucket, assigned>>
    /\ UNCHANGED AuthFrame

----------------------------------------------------------------------------
(* create_note step by step, for runs in which requests interleave (the    *)
(* server's worker processes share the collection and the bucket): the      *)
(* uploads, the id lookup and the insert are separate calls to the stores   *)
(* with no lock or transaction around them.  inflight[r] is request r       *)
(* between its steps.                                                       *)

Idle == [pc |-> "idle", username |-> Null, title |-> <<>>, description |-> <<>>,
         date |-> "", urls |-> <<>>, note_id |-> 0]

CreateBegin(r, header, title, description, date, files) ==
    LET g == Gate(header)
        username == collection[g.user].username
    IN  /\ inflight[r].pc = "idle"
        /\ IF g.status # 200
           THEN /\ resp' = GateError("create", g)
                /\ UNCHANGED <<bucket, inflight>>
           ELSE /\ bucket' = UploadAll(bucket, files, now)
                /\ inflight' = [inflight EXCEPT ![r] =
                       [Idle EXCEPT !.pc = "uploaded", !.username = username,
                                    !.title = title, !.description = description,
                                    !.date = date, !.urls = UrlsOf(files, now)]]
                /\ UNCHANGED resp
        /\ UNCHANGED <<collection, now, envAlgorithm, bcryptStrict, issued, accepted, assigned>>

CreateGetId(r) ==
    /\ inflight[r].pc = "uploaded"
    /\ inflight' = [inflight EXCEPT ![r].pc = "got_id",
                                    ![r].note_id = get_next_sequence_value(collection)]
    /\ UNCHANGED <<collection, bucket, now, envAlgorithm, bcryptStrict, resp, issued, accepted,
                   assigned>>

CreateInsert(r) ==
    LET req == inflight[r]
    IN  /\ req.pc = "got_id"
        /\ Len(assigned) < MaxCreates
        /\ collection' = insert_one(collection,
               NewNote(req.note_id, req.title, req.description, req.date,
                       req.username, req.urls))
        /\ assigned' = Append(assigned, req.note_id)
        /\ inflight' = [inflight EXCEPT ![r] = Idle]
        /\ resp' = Response("create", 200, "Note created successfully", req.username,
                      [id |-> req.note_id,
                       image_url |-> UrlOrNull(req.urls, "image_url"),
                       audio_url |-> UrlOrNull(req.urls, "audio_url"),
                       video_url |-> UrlOrNull(req.urls, "video_url")])
        /\ UNCHANGED <<bucket, now, envAlgorithm, bcryptStrict, issued, accepted>>

----------------------------------------------------------------------------
(* update_note and delete_note step by step: after the lookup of the note   *)
(* each handler makes its calls to the attachment store and to the          *)
(* collection one after the other, with no lock or transaction around       *)
(* them.  A call to the attachment store may raise (botocore ClientError);  *)
(* the handler's `except Exception` then ends the request with a 500.       *)
(* inflight[r] is request r: the calls it is to make (steps), how many of   *)
(* them returned (pos), and how it ended.                                   *)

StoreCall(call, slot) == [call |-> call, slot |-> slot]

\* the calls of update_note for one slot, put before delete
SlotStepsPutFirst(existing_note, files, slot) ==
    IF slot \notin DOMAIN files THEN <<>>
    ELSE <<StoreCall("put_object", slot)>> \o
         (IF HasUrl(existing_note, slot)
          THEN <<StoreCall("delete_object", slot)>> ELSE <<>>)

\* `if image:` ... of update_note: delete the old object if the note has
\* one, then upload the new one
SlotSteps(existing_note, files, slot) ==
    IF slot \notin DOMAIN files THEN <<>>
    ELSE (IF HasUrl(existing_note, slot)
          THEN <<StoreCall("delete_object", slot)>> ELSE <<>>)
         \o <<StoreCall("put_object", slot)>>

update_steps(existing_note, files) ==
    SlotSteps(existing_note, files, "image_url")
        \o SlotSteps(existing_note, files, "audio_url")
        \o SlotSteps(existing_note, files, "video_url")
        \o <<StoreCall("update_one", "")>>

DeleteSteps(note, slot) ==
    IF HasUrl(note, slot) THEN <<StoreCall("delete_object", slot)>> ELSE <<>>

\* a delete_note that removes the record before the attachments
delete_steps_record_first(note) ==
    <<StoreCall("delete_one", "")>>
        \o DeleteSteps(note, "image_url") \o DeleteSteps(note, "audio_url")
        \o DeleteSteps(note, "video_url")

delete_steps(note) ==
    DeleteSteps(note, "image_url") \o DeleteSteps(note, "audio_url")
        \o DeleteSteps(note, "video_url") \o <<StoreCall("delete_one", "")>>

NoCall == [pc |-> "idle", op |-> "", username |-> Null, note_id |-> 0,
           existing_note |-> <<>>, files |-> <<>>, fields |-> <<>>,
           urls |-> <<>>, steps |-> <<>>, pos |-> 0, status |-> 0]

\* the call request r makes next
NextCall(r) == inflight[r].steps[inflight[r].pos + 1]

Running(r, call) ==
    /\ inflight[r].pc = "running"
    /\ NextCall(r).call = call

UpdateBegin(r, header, note_id, title, description, date, files) ==
    LET g == Gate(header)
        username == collection[g.user].username
        i == find_one(collection, OwnNote(note_id, username))
    IN  /\ inflight[r].pc = "idle"
        /\ IF g.status # 200
           THEN /\ resp' = GateError("update", g)
                /\ UNCHANGED inflight
           ELSE IF i = 0
           THEN /\ resp' = CaughtNotFound("update", username)
                /\ UNCHANGED inflight
           ELSE /\ inflight' = [inflight EXCEPT ![r] =
                       [NoCall EXCEPT !.pc = "running", !.op = "update",
                            !.username = username, !.note_id = note_id,
                            !.existing_note = collection[i], !.files = files,
                            !.fields = [title |-> title,
                                        description |-> description,
                                        date |-> date],
                            !.steps = update_steps(collection[i], files)]]
                /\ UNCHANGED resp
        /\ UNCHANGED <<collection, bucket>>
        /\ UNCHANGED <<now, envAlgorithm, bcryptStrict, issued, accepted, assigned>>

DeleteBegin(r, header, note_id) ==
    LET g == Gate(header)
        username == collection[g.user].username
        i == find_one(collection, OwnNote(note_id, username))
    IN  /\ inflight[r].pc = "idle"
        /\ IF g.status # 200
           THEN /\ resp' = GateError("delete", g)
                /\ UNCHANGED inflight
           ELSE IF i = 0
           THEN /\ resp' = CaughtNotFound("delete", username)
                /\ UNCHANGED inflight
           ELSE /\ inflight' = [inflight EXCEPT ![r] =
                       [NoCall EXCEPT !.pc = "running", !.op = "delete",
                            !.username = username, !.note_id = note_id,
                            !.existing_note = collection[i],
                            !.steps = delete_steps(collection[i])]]
                /\ UNCHANGED resp
        /\ UNCHANGED <<collection, bucket>>
        /\ UNCHANGED <<now, envAlgorithm, bcryptStrict, issued, accepted, assigned>>

\* delete_file_from_s3 returns
StepDeleteObject(r) ==
    LET req == inflight[r]
    IN  /\ Running(r, "delete_object")
        /\ bucket' = delete_file_from_s3(bucket, req.existing_note[NextCall(r).slot])
        /\ inflight' = [inflight EXCEPT ![r].pos = @ + 1]
        /\ UNCHANGED <<collection, resp>>
        /\ UNCHANGED <<now, envAlgorithm, bcryptStrict, issued, accepted, assigned>>

\* save_file_to_s3 returns
StepPutObject(r) ==
    LET req == inflight[r]
        slot == NextCall(r).slot
        saved == save_file_to_s3(bucket, req.files[slot], now)
    IN  /\ Running(r, "put_object")
        /\ bucket' = saved.bucket
        /\ inflight' = [inflight EXCEPT ![r].pos = @ + 1,
                            ![r].urls = [s \in {slot} |-> saved.url] @@ @]
        /\ UNCHANGED <<collection, resp>>
        /\ UNCHANGED <<now, envAlgorithm, bcryptStrict, issued, accepted, assigned>>

\* the call to the attachment store raises: the handler answers 500 and
\* makes no further call
StepFails(r) ==
    LET req == inflight[r]
    IN  /\ inflight[r].pc = "running"
        /\ NextCall(r).call \in {"delete_object", "put_object"}
        /\ inflight' = [inflight EXCEPT ![r].pc = "finished", ![r].status = 500]
        /\ resp' = Response(req.op, 500,
                       IF NextCall(r).call = "delete_object"
                       THEN "500: Failed to delete file"
                       ELSE "500: Failed to upload", req.username, Null)
        /\ UNCHANGED <<collection, bucket>>
        /\ UNCHANGED <<now, envAlgorithm, bcryptStrict, issued, accepted, assigned>>

\* update_one({"id", "user_id"}, {"$set": update_data})
StepUpdateOne(r) ==
    LET req == inflight[r]
        i == find_one(collection, OwnNote(req.note_id, req.username))
        updated == (req.urls @@ req.fields) @@ collection[i]
    IN  /\ Running(r, "update_one")
        /\ IF i = 0
           THEN /\ UNCHANGED collection
                /\ resp' = Response("update", 200, "No changes detected",
                                    req.username, Null)
           ELSE /\ collection' = [collection EXCEPT ![i] = updated]
                /\ resp' = Response("update", 200,
                              IF updated # collection[i]
                              THEN "Note updated successfully"
                              ELSE "No changes detected", req.username, Null)
        /\ inflight' = [inflight EXCEPT ![r].pos = @ + 1, ![r].pc = "finished",
                                        ![r].status = 200]
        /\ UNCHANGED bucket
        /\ UNCHANGED <<now, envAlgorithm, bcryptStrict, issued, accepted, assigned>>

\* delete_one({"id", "user_id"}); deleted_count = 0 raises the 404, which
\* the handler's `except Exception` turns into a 500
StepDeleteOne(r) ==
    LET req == inflight[r]
        i == find_one(collection, OwnNote(req.note_id, req.username))
    IN  /\ Running(r, "delete_one")
        /\ IF i = 0
           THEN /\ UNCHANGED collection
                /\ resp' = CaughtNotFound("delete", req.username)
           ELSE /\ collection' = delete_one(collection, i)
                /\ resp' = Response("delete", 200, "Note deleted successfully",
                                    req.username, Null)
        /\ inflight' = [inflight EXCEPT ![r].pos = @ + 1, ![r].pc = "finished",
                            ![r].status = IF i = 0 THEN 500 ELSE 200]
        /\ UNCHANGED bucket
        /\ UNCHANGED <<now, envAlgorithm, bcryptStrict, issued, accepted, assigned>>

----------------------------------------------------------------------------
(* The authentication subsystem: signup, login, the gate, the clock.        *)

\* the tokens a client may present: those login can issue, with every expiry,
\* and long-lived ones with any subject, signing key and algorithm
AuthTokens ==
    [sub : Usernames, exp : 0..(MaxTime + TokenTTL), key : {SECRET_KEY},
     alg : {ALGORITHM}]
    \cup [sub : Usernames \cup {Null}, exp : {MaxTime + TokenTTL},
          key : {SECRET_KEY, "other-secret"}, alg : {"HS256", "HS512"}]

AuthHeaders == {NoHeader, BasicHeader} \cup {Bearer(t) : t \in AuthTokens}

NoResponse == Response("none", 0, "", Null, Null)

InitAuth ==
    /\ bcryptStrict = TRUE
    /\ collection = <<>>
    /\ bucket = <<>>
    /\ now = 0
    /\ envAlgorithm \in EnvAlgorithms
    /\ resp = NoResponse
    /\ issued = {}
    /\ accepted = {}
    /\ assigned = <<>>
    /\ inflight = <<>>

NextAuth ==
    \/ \E user \in SignupUsers : SignUp(user)
    \/ \E op \in {"token", "signIn"}, u \in Usernames, p \in Passwords :
           Login(op, u, p)
    \/ \E header \in AuthHeaders : ReadUsersMe(header)
    \/ \E i \in 1..Len(collection) : SetDisabled(i)
    \/ Tick

SpecAuth == InitAuth /\ [][NextAuth]_vars

----------------------------------------------------------------------------
(* Claims about the authentication subsystem (checked under SpecAuth)       *)

\* C2: after any sequence of signups, every <<username, password>> pair a
\* signup accepted authenticates as a user of that name, and the same
\* username with any other password does not authenticate.
C2_AcceptedPairsAuthenticate ==
    \A pair \in accepted :
        /\ authenticate_user(collection, pair[1], pair[2]) # 0
        /\ collection[authenticate_user(collection, pair[1], pair[2])].username
               = pair[1]
        /\ \A wrong \in Passwords \ {pair[2]} :
               authenticate_user(collection, pair[1], wrong) = 0

\* C3: every token create_access_token issued at login for an existing,
\* enabled user passes get_current_user strictly before its expiry and gets
\* the 401 strictly after it; a token signed with another secret never passes.
C3_IssuedTokenAcceptedUntilExpiry ==
    /\ \A tok \in issued :
           LET g == get_current_user(collection, Bearer(tok), envAlgorithm, now)
               u == get_user(collection, tok.sub)
           IN  (u # 0 /\ ~IsDisabled(collection[u])) =>
                   /\ now < tok.exp => g.status = 200
                   /\ now > tok.exp => g.status = 401
    /\ \A forged \in AuthTokens :
           forged.key # SECRET_KEY =>
               get_current_user(collection, Bearer(forged), envAlgorithm, now).status
                   = 401

\* the tokens the gate verifies: signature and algorithm check out, not expired
Verifies(token) == jwt_decode(token, envAlgorithm, now) /\ token.sub # Null

\* C4: a request with an unexpired token that verifies, whose subject's
\* credential record is disabled, gets 400 "Inactive user" (not the 401), and
\* the handler behind the gate does not run: no user is resolved, no body is
\* returned, the stores are untouched.
C4_DisabledUserGetsInactive ==
    [][\A header \in AuthHeaders :
          ( /\ header.scheme = "Bearer"
            /\ Verifies(header.token)
            /\ get_user(collection, header.token.sub) # 0
            /\ IsDisabled(collection[get_user(collection, header.token.sub)])
            /\ ReadUsersMe(header) )
          => /\ resp'.status = 400
             /\ resp'.detail = "Inactive user"
             /\ resp'.user = Null
             /\ resp'.body = Null
             /\ collection' = collection
             /\ bucket' = bucket]_vars

C4_Witness ==
    /\ resp.op = "users_me"
    /\ resp.status = 400
    /\ resp.detail = "Inactive user"
    /\ \E i \in 1..Len(collection) : IsDisabled(collection[i])

\* C8: every login (POST /token, POST /signIn) with credentials that
\* authenticate_user accepts answers 200 with access_token, token_type and the
\* username, and sets the http-only cookie access_token = "Bearer " + token.
C8_LoginReturnsToken ==
    [][\A op \in {"token", "signIn"}, u \in Usernames, p \in Passwords :
          (Login(op, u, p) /\ authenticate_user(collection, u, p) # 0)
          => /\ resp'.status = 200
             /\ TokenFields \subseteq DOMAIN resp'.body
             /\ resp'.body.token_type = "bearer"
             /\ resp'.body.username = u
             /\ resp'.cookie = [key |-> "access_token",
                                value |-> <<"Bearer ", resp'.body.access_token>>,
                                httponly |-> TRUE]]_vars

\* C15: a request without an Authorization header, or with one that does not
\* start with "Bearer ", gets the 401 "Not authenticated" whatever the
\* credential store, the verification algorithm and the time are (the store
\* is not read, the token is not verified); and no path through the gate
\* writes to the collection or to the attachment store.
C15_GateShortCircuitsAndIsReadOnly ==
    [][\A header \in AuthHeaders :
          ( /\ resp'.op = "users_me"
            /\ (resp'.status = 200) = (Gate(header).status = 200)
            /\ ReadUsersMe(header) )
          => /\ collection' = collection
             /\ bucket' = bucket
             /\ header.scheme # "Bearer" =>
                    /\ resp'.status = 401
                    /\ resp'.detail = "Not authenticated"
                    /\ Gate(header)
                           = get_current_active_user(<<>>, header, Null, 0)]_vars

C15_Witness ==
    /\ resp.op = "users_me"
    /\ resp.status = 401
    /\ resp.detail = "Not authenticated"
    /\ \E i \in 1..Len(collection) : IsUser(collection[i])

\* C16: for a request with a bearer token the gate's rejection is the same
\* response, 401 "Could not validate credentials", whether the token fails on
\* its signature, on its expiry, on a missing subject, or names a subject
\* without a credential record.
C16_RejectionsAreUniform ==
    \A tok \in AuthTokens :
        ( \/ tok.key # SECRET_KEY
          \/ tok.exp <= now
          \/ tok.sub = Null
          \/ get_user(collection, tok.sub) = 0 )
        => Gate(Bearer(tok)) = Rejected(401, "Could not validate credentials")

C16_Witness ==
    /\ resp.op = "users_me"
    /\ resp.status = 401
    /\ resp.detail = "Could not validate credentials"
    /\ envAlgorithm = ALGORITHM
    /\ \E tok \in issued : tok.exp <= now
    /\ \E tok \in AuthTokens :
           /\ jwt_decode(tok, envAlgorithm, now)
           /\ tok.sub # Null
           /\ get_user(collection, tok.sub) = 0

\* C17: after any sequence of signups the credential store holds at most one
\* credential record per username.
C17_UsernameIsUnique ==
    \A i \in 1..Len(collection), j \in 1..Len(collection) :
        ( /\ IsUser(collection[i])
          /\ IsUser(collection[j])
          /\ collection[i].username = collection[j].username ) => i = j

\* C21: the algorithm the gate verifies under is the constant the issuer
\* signs with: for every presented token the gate's verdict is the verdict
\* under ALGORITHM, whatever the environment holds, and a token is accepted
\* only if its own header names ALGORITHM.
C21_VerifiesUnderIssuersAlgorithm ==
    \A tok \in AuthTokens :
        /\ Gate(Bearer(tok))
               = get_current_active_user(collection, Bearer(tok), ALGORITHM, now)
        /\ Gate(Bearer(tok)).status = 200 => tok.alg = ALGORITHM

----------------------------------------------------------------------------
(* The note lifecycle: two registered users, every handler one step.        *)

Alice == [username |-> "alice", email |-> "a@x", hashed_password |-> <<"p">>,
          role |-> "student"]
Bob == [username |-> "bob", email |-> Null, hashed_password |-> <<"p">>,
        role |-> "student"]

ValidToken(u) ==
    [sub |-> u, exp |-> MaxTime + 1, key |-> SECRET_KEY, alg |-> ALGORITHM]

NoteHeaders == {NoHeader, Bearer(ValidToken("alice")), Bearer(ValidToken("bob"))}

FileNamed(n) == [filename |-> n, body |-> "bytes"]

PlainFile == [filename |-> <<"a">>, body |-> "bytes"]

NoFiles == <<>>

FileParts == {NoFiles, [image_url |-> PlainFile]}

NoteIds == 1..MaxCreates

Init ==
    /\ bcryptStrict = TRUE
    /\ collection = <<SignupDoc(Alice), SignupDoc(Bob)>>
    /\ bucket = <<>>
    /\ now = 0
    /\ envAlgorithm \in EnvAlgorithms
    /\ resp = NoResponse
    /\ issued = {}
    /\ accepted = {<<Alice.username, Alice.hashed_password>>,
                   <<Bob.username, Bob.hashed_password>>}
    /\ assigned = <<>>
    /\ inflight = <<>>

Next ==
    \/ \E header \in NoteHeaders, title \in Titles, description \in Descriptions,
          date \in Dates, files \in FileParts :
           CreateNote(header, title, description, date, files)
    \/ \E header \in NoteHeaders : GetNotes(header)
    \/ \E header \in NoteHeaders, note_id \in NoteIds : GetNote(header, note_id)
    \/ \E header \in NoteHeaders, note_id \in NoteIds :
           GetNoteFile(header, note_id, "image_url")
    \/ \E header \in NoteHeaders, note_id \in NoteIds : DeleteNote(header, note_id)
    \/ \E header \in NoteHeaders, note_id \in NoteIds, title \in Titles,
          description \in Descriptions, date \in Dates, files \in FileParts :
           UpdateNote(header, note_id, title, description, date, files)
    \/ \E header \in NoteHeaders, query \in Queries : SearchNotes(header, query)

Spec == Init /\ [][Next]_vars

----------------------------------------------------------------------------
(* Claims about the note handlers (checked under Spec)                      *)

NoteOps == {"create", "list", "read", "image_url", "audio_url", "video_url",
            "delete", "update", "search"}

OthersNotes(coll, username) ==
    SelectSeq(coll, LAMBDA d : IsNote(d) /\ d.user_id # username)

\* C1: whatever a note request authenticated as user B does, the notes of
\* every other owner stay in the collection unchanged, and every note (or
\* attachment of a note) the response carries is owned by the username the
\* gate resolved for the request.
C1_OwnerScoped ==
    [][resp'.op \in NoteOps =>
          LET u == resp'.user
          IN  /\ OthersNotes(collection', u) = OthersNotes(collection, u)
              /\ (resp'.status = 200 /\ resp'.op \in {"list", "search"}) =>
                     \A i \in 1..Len(resp'.body) : resp'.body[i].user_id = u
              /\ (resp'.status = 200 /\ resp'.op = "read") =>
                     resp'.body.user_id = u
              /\ (resp'.status = 200
                    /\ resp'.op \in {"image_url", "audio_url", "video_url"}) =>
                     \E i \in 1..Len(collection) :
                         /\ Matches(collection[i],
                                    [id |-> resp'.body.note_id, user_id |-> u])
                         /\ HasUrl(collection[i], resp'.op)
                         /\ get_file_from_s3(bucket, collection[i][resp'.op]).data
                                = resp'.body.data]_vars

C1_Witness ==
    /\ resp.op = "search"
    /\ resp.status = 200
    /\ resp.user = "bob"
    /\ Len(resp.body) > 0
    /\ \E i \in 1..Len(collection) :
           /\ Matches(collection[i], [user_id |-> "alice"])
           /\ \E q \in Queries : SearchMatch(collection[i], q, "alice")

\* the query as a case-insensitive substring of the text
ContainsSubstring(text, query) ==
    \E k \in 0..(Len(text) - Len(query)) :
        SubSeq(LowerAll(text), k + 1, k + Len(query)) = LowerAll(query)

\* C14: search_notes(query) of an authenticated user returns exactly that
\* user's notes whose title or description contains the query as a
\* case-insensitive substring, together with that user's note whose id equals
\* the query when the query parses as an integer, and nothing of another user.
C14_SearchIsSubstringOrId ==
    [][\A header \in NoteHeaders, query \in Queries :
          ( /\ Gate(header).status = 200
            /\ resp'.op = "search"
            /\ (resp'.status = 500) = RegexInvalid(query)
            /\ SearchNotes(header, query) )
          => /\ resp'.status = 200
             /\ resp'.body = NoteViews(SelectSeq(collection, LAMBDA d :
                    /\ Matches(d, [user_id |-> resp'.user])
                    /\ \/ ContainsSubstring(d.title, query)
                       \/ ContainsSubstring(d.description, query)
                       \/ ParsesAsInt(query) /\ d.id = IntOf(query)))]_vars

\* the highest id among the notes of the collection, 0 when it holds no note
HighestNoteId(coll) ==
    LET ids == {coll[i].id : i \in {j \in 1..Len(coll) : IsNote(coll[j])}}
    IN  IF ids = {} THEN 0 ELSE CHOOSE m \in ids : \A n \in ids : n <= m

\* C19: a create_note that runs without interleaving stores the note under
\* the highest id among the existing notes plus 1 (1 when there is no note),
\* and returns that id with a null URL for every slot that was not supplied.
C19_CreateAssignsNextId ==
    [][\A header \in NoteHeaders, title \in Titles, description \in Descriptions,
          date \in Dates, files \in FileParts :
          ( /\ Gate(header).status = 200
            /\ resp'.op = "create"
            /\ resp'.status = 200
            /\ CreateNote(header, title, description, date, files) )
          => /\ resp'.body.id = HighestNoteId(collection) + 1
             /\ Len(collection') = Len(collection) + 1
             /\ collection'[Len(collection')].id = HighestNoteId(collection) + 1
             /\ collection'[Len(collection')].user_id = resp'.user
             /\ \A slot \in Slots \ DOMAIN files : resp'.body[slot] = NoUrl]_vars

C19_Witness ==
    /\ resp.op = "create"
    /\ resp.status = 200
    /\ resp.body.id = 2
    /\ resp.body.image_url = NoUrl
    /\ HighestNoteId(collection) = 2

----------------------------------------------------------------------------
(* The attachments over time: notes with images of every filename, the      *)
(* clock advancing between the requests.                                    *)

AttachHeaders == {Bearer(ValidToken("alice"))}

ImageParts == {NoFiles} \cup {[image_url |-> FileNamed(n)] : n \in Filenames}

NextAttach ==
    \/ \E header \in AttachHeaders, title \in Titles, description \in Descriptions,
          date \in Dates, files \in ImageParts :
           CreateNote(header, title, description, date, files)
    \/ \E header \in AttachHeaders, note_id \in NoteIds :
           GetNoteFile(header, note_id, "image_url")
    \/ \E header \in AttachHeaders, note_id \in NoteIds : DeleteNote(header, note_id)
    \/ \E header \in AttachHeaders, note_id \in NoteIds, title \in Titles,
          description \in Descriptions, date \in Dates, files \in ImageParts :
           UpdateNote(header, note_id, title, description, date, files)
    \/ Tick

InitAttach == Init /\ envAlgorithm = ALGORITHM

SpecAttach == InitAttach /\ [][NextAttach]_vars

\* C5: for every uploaded filename, a create with an image leaves the object
\* retrievable by the URL it returns, and a successful delete of a note leaves
\* no object under the key of the note's image and nothing to fetch by its URL.
C5_CreateDeleteRoundTrip ==
    [][/\ \A header \in AttachHeaders, title \in Titles, description \in Descriptions,
             date \in Dates, files \in ImageParts :
              ( /\ CreateNote(header, title, description, date, files)
                /\ resp'.status = 200
                /\ "image_url" \in DOMAIN files ) =>
                  /\ resp'.body.image_url # NoUrl
                  /\ get_file_from_s3(bucket', resp'.body.image_url).status = 200
       /\ \A header \in AttachHeaders, note_id \in NoteIds :
              (DeleteNote(header, note_id) /\ resp'.status = 200) =>
                  \A i \in 1..Len(collection) :
                      ( /\ collection' = delete_one(collection, i)
                        /\ HasUrl(collection[i], "image_url") ) =>
                          /\ key_of_url(collection[i].image_url) \notin DOMAIN bucket'
                          /\ get_file_from_s3(bucket', collection[i].image_url).status
                                 = 404]_vars

\* C6: after a successful update that supplies an image for a note that had
\* one, the note's image_url differs from the old URL and a fetch by the old
\* URL reports not-found, for every filename and every time of the update.
C6_UpdateReplacesImage ==
    [][\A header \in AttachHeaders, note_id \in NoteIds, title \in Titles,
          description \in Descriptions, date \in Dates, files \in ImageParts :
          ( /\ UpdateNote(header, note_id, title, description, date, files)
            /\ resp'.status = 200
            /\ "image_url" \in DOMAIN files )
          => \A i \in 1..Len(collection) :
                 ( /\ Matches(collection[i], OwnNote(note_id, resp'.user))
                   /\ HasUrl(collection[i], "image_url") ) =>
                     /\ collection'[i].image_url # collection[i].image_url
                     /\ get_file_from_s3(bucket', collection[i].image_url).status
                            = 404]_vars

\* C7: delete_note and update_note by an authenticated user with an id for
\* which that user has no note answer 404 and leave the collection and the
\* attachment store unchanged.
C7_MissingNoteIsNotFound ==
    [][\A header \in NoteHeaders, note_id \in NoteIds :
          ( /\ \/ DeleteNote(header, note_id)
               \/ \E title \in Titles, description \in Descriptions, date \in Dates,
                     files \in FileParts :
                      UpdateNote(header, note_id, title, description, date, files)
            /\ Gate(header).status = 200
            /\ find_one(collection,
                   OwnNote(note_id, collection[Gate(header).user].username)) = 0 )
          => /\ resp'.status = 404
             /\ UNCHANGED <<collection, bucket>>]_vars

\* C10: the ids handed out by successive creates are strictly increasing, so
\* an id once assigned is never assigned to a later note, also after the
\* earlier note was deleted.
C10_IdsNeverReused ==
    \A i \in 1..Len(assigned), j \in 1..Len(assigned) :
        i < j => assigned[i] < assigned[j]

\* the <<note index, slot>> pairs whose URL names the object under `key`
ReferencesTo(key) ==
    {ref \in (1..Len(collection)) \X Slots :
        /\ IsNote(collection[ref[1]])
        /\ HasUrl(collection[ref[1]], ref[2])
        /\ key_of_url(collection[ref[1]][ref[2]]) = key}

\* C11: after any sequence of completed create, update and delete requests,
\* every object of the attachment store is referenced by exactly one URL field
\* of exactly one existing note: no orphaned object, no shared object.
C11_NoOrphanNoSharedObject ==
    \A key \in DOMAIN bucket : Cardinality(ReferencesTo(key)) = 1

\* C12: after any sequence of completed create, update and delete requests,
\* every non-empty attachment URL of an existing note refers to an object
\* present in the attachment store.
C12_UrlsReferToObjects ==
    \A i \in 1..Len(collection), slot \in Slots :
        (IsNote(collection[i]) /\ HasUrl(collection[i], slot)) =>
            get_file_from_s3(bucket, collection[i][slot]).status = 200

----------------------------------------------------------------------------
(* Concurrent create_note requests: the steps of up to MaxInflight requests *)
(* interleave with each other and with deletes.                             *)

Requests == 1..MaxInflight

InitRace ==
    /\ bcryptStrict = TRUE
    /\ collection = <<SignupDoc(Alice), SignupDoc(Bob)>>
    /\ bucket = <<>>
    /\ now = 0
    /\ envAlgorithm = ALGORITHM
    /\ resp = NoResponse
    /\ issued = {}
    /\ accepted = {<<Alice.username, Alice.hashed_password>>,
                   <<Bob.username, Bob.hashed_password>>}
    /\ assigned = <<>>
    /\ inflight = [r \in Requests |-> Idle]

NextRace ==
    \/ \E r \in Requests, header \in NoteHeaders \ {NoHeader}, title \in Titles,
          description \in Descriptions, date \in Dates, files \in {NoFiles} :
           CreateBegin(r, header, title, description, date, files)
    \/ \E r \in Requests : CreateGetId(r)
    \/ \E r \in Requests : CreateInsert(r)
    \/ \E header \in NoteHeaders \ {NoHeader}, note_id \in NoteIds :
           DeleteNote(header, note_id)

SpecRace == InitRace /\ [][NextRace]_vars

NoteIndexes == {i \in 1..Len(collection) : IsNote(collection[i])}

\* C9: in every reachable state, also one reached by interleaved create_note
\* requests, no two note records have the same id.
C9_UniqueIds ==
    \A i \in NoteIndexes, j \in NoteIndexes :
        collection[i].id = collection[j].id => i = j

----------------------------------------------------------------------------
(* The password hasher on long passwords: hashing at POST /hash-password    *)
(* and at signup, verification at login, under either bcrypt build.         *)

Repeat(c, n) == [i \in 1..n |-> c]

LongPasswords ==
    {Repeat("a", MAX_PASSWORD_CHARS + 1),
     Repeat("a", MAX_PASSWORD_CHARS) \o <<"b">>,
     Repeat("a", RETRY_PASSWORD_CHARS) \o Repeat(TwoByteChar, 23),
     Repeat(TwoByteChar, 40) \o Repeat("a", 33),
     Repeat(TwoByteChar, MAX_PASSWORD_CHARS + 1)}

\* with a password of at most 50 characters and more than 72 bytes
HashPasswords == LongPasswords \cup {<<"p">>, Repeat(TwoByteChar, 40)}

InitHash ==
    /\ bcryptStrict \in BOOLEAN
    /\ collection = <<>>
    /\ bucket = <<>>
    /\ now = 0
    /\ envAlgorithm = ALGORITHM
    /\ resp = NoResponse
    /\ issued = {}
    /\ accepted = {}
    /\ assigned = <<>>
    /\ inflight = <<>>

NextHash ==
    \/ \E password \in HashPasswords : HashPassword(password)
    \/ \E user \in [username : SignupNames, email : Emails,
                    hashed_password : HashPasswords, role : {"student"}] :
           SignUp(user)
    \/ \E u \in SignupNames, p \in HashPasswords : Login("token", u, p)

SpecHash == InitHash /\ [][NextHash]_vars

\* C13: for every plaintext password p longer than 72 characters, hashing p
\* succeeds and verify_password(p, get_password_hash(p)) is true.
C13_LongPasswordRoundTrip ==
    [][\A p \in HashPasswords :
          ( /\ Len(p) > MAX_PASSWORD_CHARS
            /\ resp'.op = "hash-password"
            /\ (resp'.status = 200) = get_password_hash(p).ok
            /\ HashPassword(p) ) =>
              /\ resp'.status = 200
              /\ verify_password(p, resp'.body.hashed_password)]_vars

\* both attempts of the hasher on `password` raise
BothAttemptsFail(password) ==
    /\ Len(pwd_context_inputs(password)) = 2
    /\ BackendRaises(pwd_context_inputs(password)[2])

\* C25: when the underlying hash or verify call fails the hasher retries
\* exactly once, with a shorter input; when the retry fails too, hashing ends
\* with the hashing-failure error (500) and verification answers "no match"
\* (the login gets its 401, never a server error).
C25_RetryOnceWithShorterInput ==
    [][/\ \A p \in HashPasswords :
              ( /\ resp'.op = "hash-password"
                /\ (resp'.status = 200) = get_password_hash(p).ok
                /\ HashPassword(p) ) =>
                  LET tried == pwd_context_inputs(p)
                  IN  /\ Len(tried) \in {1, 2}
                      /\ Len(tried) = 2 => Len(tried[2]) < Len(tried[1])
                      /\ BothAttemptsFail(p) => resp'.status = 500
                      /\ ~BothAttemptsFail(p) => resp'.status = 200
       /\ \A u \in SignupNames, p \in HashPasswords :
              ( /\ resp'.op = "token"
                /\ (resp'.status = 200) = (authenticate_user(collection, u, p) # 0)
                /\ Login("token", u, p) ) =>
                  LET tried == pwd_context_inputs(p)
                  IN  /\ Len(tried) \in {1, 2}
                      /\ Len(tried) = 2 => Len(tried[2]) < Len(tried[1])
                      /\ BothAttemptsFail(p) => resp'.status = 401
                      /\ resp'.status \in {200, 401}]_vars

----------------------------------------------------------------------------
(* Fetching attachments of every kind: notes with an image or an audio      *)
(* file, created, deleted and fetched through GET /image and GET /audio.    *)

NextFetch ==
    \/ \E header \in AttachHeaders, title \in Titles, description \in Descriptions,
          date \in Dates,
          files \in {NoFiles, [image_url |-> PlainFile], [audio_url |-> PlainFile]} :
           CreateNote(header, title, description, date, files)
    \/ \E header \in AttachHeaders, note_id \in NoteIds, slot \in {"image_url", "audio_url"} :
           GetNoteFile(header, note_id, slot)
    \/ \E header \in AttachHeaders, note_id \in NoteIds : DeleteNote(header, note_id)

SpecFetch == InitAttach /\ [][NextFetch]_vars

\* C18: fetching a note's attachment whose URL refers to an object absent
\* from the store answers 404, for the image and the audio endpoint alike
\* (the video endpoint is the audio endpoint's code with another field).
C18_MissingObjectIsNotFound ==
    [][\A header \in AttachHeaders, note_id \in NoteIds, slot \in {"image_url", "audio_url"} :
          LET i == find_one(collection, OwnNote(note_id, resp'.user))
          IN  ( /\ Gate(header).status = 200
                /\ resp'.op = slot
                /\ resp'.status # 200
                /\ GetNoteFile(header, note_id, slot)
                /\ i # 0
                /\ HasUrl(collection[i], slot)
                /\ get_file_from_s3(bucket, collection[i][slot]).status = 404 )
              => resp'.status = 404]_vars

----------------------------------------------------------------------------
(* Signups next to notes: users and notes live in the one collection        *)
(* noteDiary, so a signup's duplicate check runs over note documents too.   *)

NextShared ==
    \/ \E user \in SignupUsers : SignUp(user)
    \/ \E header \in AttachHeaders, title \in Titles, description \in Descriptions,
          date \in Dates, files \in FileParts :
           CreateNote(header, title, description, date, files)
    \/ \E header \in AttachHeaders, note_id \in NoteIds : DeleteNote(header, note_id)

InitShared ==
    /\ bcryptStrict = TRUE
    /\ collection = <<SignupDoc(Alice)>>
    /\ bucket = <<>>
    /\ now = 0
    /\ envAlgorithm = ALGORITHM
    /\ resp = NoResponse
    /\ issued = {}
    /\ accepted = {<<Alice.username, Alice.hashed_password>>}
    /\ assigned = <<>>
    /\ inflight = <<>>

SpecShared == InitShared /\ [][NextShared]_vars

\* C20: a signup whose email equals the email of a stored credential record
\* gets a 400 and leaves the store unchanged; a signup whose email matches no
\* stored credential record is not rejected as a duplicate, whatever note
\* records exist.
C20_DuplicateEmailOnly ==
    [][\A user \in SignupUsers :
          LET duplicate == \E i \in 1..Len(collection) :
                               /\ IsUser(collection[i])
                               /\ collection[i].email = user.email
          IN  ( /\ user.hashed_password # <<>>
                /\ resp'.op = "signup"
                /\ SignUp(user) )
              => /\ duplicate => (resp'.status = 400 /\ collection' = collection)
                 /\ ~duplicate => ~( /\ resp'.status = 400
                                     /\ resp'.detail = "Email already registered" )]_vars

----------------------------------------------------------------------------
(* Updates and deletes step by step: alice has note 1 with an image and     *)
(* note 2 without attachments; up to MaxInflight update_note and            *)
(* delete_note requests run their calls interleaved, and any call to the    *)
(* attachment store may raise.  The requests are numbered in the order in   *)
(* which they arrive.                                                       *)

Arrives(r) == \A q \in 1..(r - 1) : inflight[q].pc # "idle"

InitSteps ==
    /\ bcryptStrict = TRUE
    /\ collection = <<SignupDoc(Alice),
                      NewNote(1, <<"1", "s", "t">>, <<"b">>, "2024-01-01", "alice",
                          [image_url |-> save_file_to_s3(<<>>, PlainFile, 0).url]),
                      NewNote(2, <<"1", "s", "t">>, <<"b">>, "2024-01-01", "alice",
                              <<>>)>>
    /\ bucket = save_file_to_s3(<<>>, PlainFile, 0).bucket
    /\ now = 0
    /\ envAlgorithm = ALGORITHM
    /\ resp = NoResponse
    /\ issued = {}
    /\ accepted = {<<Alice.username, Alice.hashed_password>>}
    /\ assigned = <<1, 2>>
    /\ inflight = [r \in Requests |-> NoCall]

NextSteps ==
    \/ \E r \in Requests, header \in AttachHeaders, note_id \in NoteIds,
          title \in Titles, description \in Descriptions, date \in Dates,
          files \in {NoFiles, [image_url |-> PlainFile],
                    [image_url |-> FileNamed(<<"b">>)],
                    [image_url |-> PlainFile,
                     audio_url |-> FileNamed(<<"c">>)]} :
           /\ Arrives(r)
           /\ UpdateBegin(r, header, note_id, title, description, date, files)
    \/ \E r \in Requests, header \in AttachHeaders, note_id \in NoteIds :
           /\ Arrives(r)
           /\ DeleteBegin(r, header, note_id)
    \/ \E r \in Requests : StepDeleteObject(r)
    \/ \E r \in Requests : StepPutObject(r)
    \/ \E r \in Requests : StepFails(r)
    \/ \E r \in Requests : StepUpdateOne(r)
    \/ \E r \in Requests : StepDeleteOne(r)

SpecSteps == InitSteps /\ [][NextSteps]_vars

----------------------------------------------------------------------------
(* Claims about the steps of update_note and delete_note (checked under     *)
(* SpecSteps)                                                               *)

\* the calls of request `req` that returned, in the order they were made
Executed(req) == SubSeq(req.steps, 1, req.pos)

CallsOf(log, call, slot) == {i \in 1..Len(log) : log[i] = StoreCall(call, slot)}

\* C22: in update_note, for each attachment slot present in the request the
\* old object (if the note had one) is deleted before the new one is stored,
\* the record is written only after the calls of all slots returned, and a
\* request in which a call failed never writes the record: the collection
\* changes only in the step of an update_one or a delete_one.
C22_UpdateStepsInOrder ==
    [][/\ \A r \in Requests :
              inflight'[r].op = "update" =>
                  LET req == inflight'[r]
                      log == Executed(req)
                      writes == CallsOf(log, "update_one", "")
                  IN  /\ \A slot \in Slots :
                             \A i \in CallsOf(log, "put_object", slot) :
                                 /\ slot \in DOMAIN req.files
                                 /\ HasUrl(req.existing_note, slot) =>
                                        \E j \in CallsOf(log, "delete_object", slot) :
                                            j < i
                                 /\ \A j \in CallsOf(log, "delete_object", slot) :
                                        j < i
                      /\ \A w \in writes :
                             /\ w = Len(log)
                             /\ req.status = 200
                             /\ \A slot \in DOMAIN req.files :
                                    CallsOf(log, "put_object", slot) # {}
                      /\ req.status = 500 => writes = {}
       /\ collection' # collection =>
              \E r \in Requests :
                  /\ inflight[r].pc = "running"
                  /\ NextCall(r).call \in {"update_one", "delete_one"}
                  /\ inflight'[r].pos = inflight[r].pos + 1]_vars

C22_Witness ==
    \E r \in Requests, q \in Requests :
        /\ inflight[r].op = "update"
        /\ inflight[r].status = 200
        /\ CallsOf(Executed(inflight[r]), "delete_object", "image_url") # {}
        /\ CallsOf(Executed(inflight[r]), "put_object", "image_url") # {}
        /\ CallsOf(Executed(inflight[r]), "put_object", "audio_url") # {}
        /\ inflight[q].op = "update"
        /\ inflight[q].status = 500
        /\ inflight[q].pos >= 1

\* a finished, successful update_note of note 1 that supplied only an image
ReplacedImage(req) ==
    /\ req.op = "update"
    /\ req.status = 200
    /\ req.note_id = 1
    /\ DOMAIN req.files = {"image_url"}

\* C23: once two update_note requests that replace the image of the same
\* note have both finished, however their calls interleaved, the attachment
\* store holds at most one object for that slot, and it is the object the
\* note's image_url refers to.
C23_ConcurrentUpdatesLeaveOneObject ==
    \A r \in Requests, q \in Requests :
        (r # q /\ ReplacedImage(inflight[r]) /\ ReplacedImage(inflight[q])) =>
            LET i == find_one(collection, OwnNote(1, "alice"))
            IN  /\ Cardinality(DOMAIN bucket) <= 1
                /\ DOMAIN bucket = {key_of_url(collection[i].image_url)}

\* request r ends in this step because its call to the attachment store raised
FailsNow(r) ==
    /\ inflight[r].pc = "running"
    /\ inflight'[r].pc = "finished"
    /\ inflight'[r].pos = inflight[r].pos

\* C24: delete_note removes the note record only after the delete of every
\* attachment the note references returned; when an attachment delete fails
\* the request ends with an error response, not with the success message,
\* and does not remove the record.
C24_DeleteRecordAfterAttachments ==
    [][/\ \A r \in Requests :
              inflight'[r].op = "delete" =>
                  LET req == inflight'[r]
                      log == Executed(req)
                  IN  /\ \A w \in CallsOf(log, "delete_one", "") :
                             \A slot \in Slots :
                                 HasUrl(req.existing_note, slot) =>
                                     \E j \in CallsOf(log, "delete_object", slot) :
                                         j < w
                      /\ (req.pc = "finished" /\ req.pos < Len(req.steps)) =>
                             /\ req.status = 500
                             /\ CallsOf(log, "delete_one", "") = {}
       /\ \A r \in Requests :
              (inflight[r].op = "delete" /\ FailsNow(r)) =>
                  /\ resp'.op = "delete"
                  /\ resp'.status = 500
                  /\ collection' = collection
       /\ Len(collection') < Len(collection) =>
              \E r \in Requests :
                  /\ Running(r, "delete_one")
                  /\ inflight'[r].pos = Len(inflight[r].steps)
                  /\ resp'.status = 200]_vars

C24_Witness ==
    \E r \in Requests, q \in Requests :
        /\ inflight[q].op = "delete"
        /\ inflight[q].status = 500
        /\ inflight[q].pos < Len(inflight[q].steps)
        /\ find_one(collection, OwnNote(inflight[q].note_id, "alice")) # 0
        /\ resp.op = "delete"
        /\ resp.status = 500
        /\ inflight[r].op = "delete"
        /\ CallsOf(Executed(inflight[r]), "delete_object", "image_url") # {}

----------------------------------------------------------------------------
(* Lookups in the attachment store: the bucket holds the uploads of any     *)
(* subset of four file names whose keys are the four variants of one key,   *)
(* and get_file_from_s3 is called with a CDN URL, a direct object-store URL *)
(* or a bare key.                                                           *)

\* a key whose four variants differ: a+%2B, "a +", a++, "a %2B"
EncodedName == <<"a", "+", "%", "2", "B">>

LookupNames == {EncodedName, unquote_plus(EncodedName), unquote(EncodedName),
                replace_plus(EncodedName)}

\* the upload of file name n: the body tells the objects apart
LookupFile(n) == [filename |-> n, body |-> <<"bytes of">> \o n]

LookupBuckets ==
    {[k \in {object_key_of(LookupFile(n), 0) : n \in names} |->
         <<"bytes of">> \o SubSeq(k, 3, Len(k))] : names \in SUBSET LookupNames}

UrlShapes == {<<CLOUDFRONT>>, <<AMAZONAWS>>, <<>>}

FetchFile(file_url) ==
    LET got == get_file_from_s3(bucket, file_url)
    IN  /\ resp' = Response("fetch", got.status,
                       IF got.status = 200 THEN ""
                       ELSE "File not found with any key variation", Null,
                       [url |-> file_url, key |-> got.key, data |-> got.data])
        /\ UNCHANGED <<collection, bucket, now, envAlgorithm, bcryptStrict, issued,
                       accepted, assigned, inflight>>

InitLookup ==
    /\ bcryptStrict = TRUE
    /\ collection = <<SignupDoc(Alice)>>
    /\ bucket \in LookupBuckets
    /\ now = 0
    /\ envAlgorithm = ALGORITHM
    /\ resp = NoResponse
    /\ issued = {}
    /\ accepted = {<<Alice.username, Alice.hashed_password>>}
    /\ assigned = <<>>
    /\ inflight = <<>>

NextLookup ==
    \E prefix \in UrlShapes, n \in LookupNames :
        FetchFile(prefix \o object_key_of(LookupFile(n), 0))

SpecLookup == InitLookup /\ [][NextLookup]_vars

\* the variants of a key in the order of the lookup
Variants(key) == <<key, unquote_plus(key), unquote(key), replace_plus(key)>>

\* C26: for a CDN URL, a direct object-store URL and a bare key alike,
\* get_file_from_s3 looks up the key that follows the prefix in the order
\* original, plus-and-percent decoded, percent decoded, '+' as space; it
\* returns the object of the first variant that exists and answers 404
\* exactly when no variant exists.
C26_FirstExistingVariant ==
    [][\A prefix \in UrlShapes,
          key \in {object_key_of(LookupFile(n), 0) : n \in LookupNames} :
          ( /\ resp'.op = "fetch"
            /\ resp'.body.url = prefix \o key
            /\ FetchFile(prefix \o key) ) =>
              LET v == Variants(key)
                  hits == {i \in 1..4 : v[i] \in DOMAIN bucket}
              IN  /\ hits = {} => resp'.status = 404
                  /\ hits # {} =>
                         /\ resp'.status = 200
                         /\ \E i \in hits :
                                /\ \A j \in hits : i <= j
                                /\ resp'.body.key = v[i]
                                /\ resp'.body.data = bucket[v[i]]]_vars

C26_Witness ==
    /\ resp.op = "fetch"
    /\ resp.status = 200
    /\ resp.body.url = <<AMAZONAWS>> \o object_key_of(LookupFile(EncodedName), 0)
    /\ resp.body.key = object_key_of(LookupFile(unquote_plus(EncodedName)), 0)
    /\ object_key_of(LookupFile(unquote(EncodedName)), 0) \in DOMAIN bucket
    /\ object_key_of(LookupFile(replace_plus(EncodedName)), 0) \in DOMAIN bucket

----------------------------------------------------------------------------
(* Updates of some slots: notes created with an image and an audio file,    *)
(* then updated with no part, an image alone or an audio file alone, the    *)
(* clock advancing between the requests.                                    *)

FrameUpdateParts == {NoFiles, [image_url |-> FileNamed(<<"b">>)],
                     [audio_url |-> FileNamed(<<"b">>)]}

NextFrame ==
    \/ \E header \in AttachHeaders, title \in Titles, description \in Descriptions,
          date \in Dates,
          files \in {[image_url |-> PlainFile, audio_url |-> PlainFile],
                    [image_url |-> PlainFile, audio_url |-> FileNamed(<<"c">>)]} :
           CreateNote(header, title, description, date, files)
    \/ \E header \in AttachHeaders, note_id \in NoteIds, title \in Titles,
          description \in Descriptions, date \in Dates, files \in FrameUpdateParts :
           UpdateNote(header, note_id, title, description, date, files)
    \/ Tick

SpecFrame == InitAttach /\ [][NextFrame]_vars

\* C27: an update_note that supplies no file part leaves the note's three
\* URL fields, its id and its owner unchanged and makes no put or delete on
\* the attachment store; one that supplies only some slots makes calls for
\* those slots only and leaves the URL fields and the objects of the other
\* slots unchanged.
C27_UpdateLeavesOtherSlots ==
    [][\A header \in AttachHeaders, note_id \in NoteIds, title \in Titles,
          description \in Descriptions, date \in Dates, files \in FrameUpdateParts :
          ( /\ Gate(header).status = 200
            /\ resp'.op = "update"
            /\ resp'.status = 200
            /\ UpdateNote(header, note_id, title, description, date, files) ) =>
              LET i == find_one(collection, OwnNote(note_id, resp'.user))
                  steps == update_steps(collection[i], files)
              IN  /\ collection'[i].id = collection[i].id
                  /\ collection'[i].user_id = collection[i].user_id
                  /\ \A k \in 1..Len(steps) :
                         steps[k].slot \in DOMAIN files \cup {""}
                  /\ files = NoFiles => bucket' = bucket
                  /\ \A slot \in Slots \ DOMAIN files :
                         /\ HasUrl(collection'[i], slot) = HasUrl(collection[i], slot)
                         /\ HasUrl(collection[i], slot) =>
                                LET key == key_of_url(collection[i][slot])
                                IN  /\ collection'[i][slot] = collection[i][slot]
                                    /\ key \in DOMAIN bucket =>
                                           /\ key \in DOMAIN bucket'
                                           /\ bucket'[key] = bucket[key]]_vars

====
